---- MODULE Spec2Model ----
(***************************************************************************)
(* Model of toodledo.py: the paged read GetTasks, the batched writes       *)
(* EditTasks / AddTasks / DeleteTasks, GetAccount, and the Toodledo client *)
(* that runs them through ReauthorizeIfNecessary.                          *)
(*                                                                         *)
(* One behaviour is one call: either a module-level function called with a *)
(* session, or a method of the Toodledo client.  Every iteration of a      *)
(* request loop is one step; the answer of the transport to the request is *)
(* the nondeterministic input of that step.                                *)
(***************************************************************************)
EXTENDS Integers, Sequences, FiniteSets, TLC

VARIABLES
  tokenOk,        \* the session holds a usable access token
  tz,             \* local timezone offset in seconds (datetime.fromtimestamp)
  pc,             \* "idle" | "loop" | "unwind" | "done"
  op,             \* the operation called
  via,            \* "module": function called directly; "client": Toodledo method
  params,         \* GetTasks: the caller's filter parameters
  taskList,       \* Edit/Add/Delete: the caller's list of Task objects
  start,          \* loop variable `start`
  allTasks,       \* GetTasks: the accumulator `allTasks`
  requests,       \* every session.get / session.post call made, in order
  served,         \* every HTTP response received, in order
  funcOutcome,    \* how the module-level function ended
  callerOutcome,  \* what the caller of the call received
  session,        \* the client's self.session
  attempts,       \* number of times the wrapped function was invoked
  authorizeCalls, \* number of calls of Toodledo.Authorize
  codec           \* a field codec or Task method at work: its input and results

vars == <<tokenOk, tz, pc, op, via, params, taskList, start, allTasks,
          requests, served, funcOutcome, callerOutcome, session, attempts,
          authorizeCalls, codec>>

-----------------------------------------------------------------------------
(* Bounds of the model *)

\* GetTasks: the server sends at most MaxPages - 1 full pages in a row
MaxPages == 3
\* Edit/Add/Delete: input lists of 1..MaxChunks full chunks are tried
MaxChunks == 2

-----------------------------------------------------------------------------
(* Program constants *)

ReadLimit == 1000
WriteLimit == 50
TitleMax == 255

getAccountUrl == "https://api.toodledo.com/3/account/get.php"
getTasksUrl == "https://api.toodledo.com/3/tasks/get.php"
deleteTasksUrl == "https://api.toodledo.com/3/tasks/delete.php"
addTasksUrl == "https://api.toodledo.com/3/tasks/add.php"
editTasksUrl == "https://api.toodledo.com/3/tasks/edit.php"

ReadOps == {"GetAccount", "GetTasks"}
WriteOps == {"EditTasks", "AddTasks", "DeleteTasks"}
Ops == ReadOps \cup WriteOps

-----------------------------------------------------------------------------
(* Values: exceptions, return values, outcomes *)

Exc(type, code, message) == [type |-> type, code |-> code, message |-> message]

HTTPError == Exc("HTTPError", 0, "")
TokenMissing == Exc("TokenMissingError", 0, "")
NameError(name) == Exc("NameError", 0, name)
TypeError(what) == Exc("TypeError", 0, what)
KeyError(key) == Exc("KeyError", 0, key)
AttributeError(what) == Exc("AttributeError", 0, what)

\* ToodledoError.errorCodeToMessage
errorCodeToMessage ==
  (1 :> "No access token was given") @@
  (2 :> "The access token was invalid") @@
  (3 :> "Too many API requests") @@
  (4 :> "The API is offline for maintenance") @@
  (601 :> "Your task must have a title.") @@
  (602 :> "Only 50 tasks can be added/edited/deleted at a time.") @@
  (603 :> "The maximum number of tasks allowed per account (20000) has been reached") @@
  (604 :> "Empty id") @@
  (605 :> "Invalid task") @@
  (606 :> "Nothing was added/edited. You'll get this error if you attempt to edit a task but don't pass any parameters to edit.") @@
  (607 :> "Invalid folder id") @@
  (608 :> "Invalid context id") @@
  (609 :> "Invalid goal id") @@
  (610 :> "Invalid location id") @@
  (611 :> "Malformed request") @@
  (612 :> "Invalid parent id") @@
  (613 :> "Incorrect field parameters") @@
  (614 :> "Parent was deleted") @@
  (615 :> "Invalid collaborator") @@
  (616 :> "Unable to reassign or share task")

\* ToodledoError.__init__
ToodledoError(errorCode) ==
  Exc("ToodledoError", errorCode,
      IF errorCode \in DOMAIN errorCodeToMessage
        THEN errorCodeToMessage[errorCode]
        ELSE "Unknown error")

RetNone == [kind |-> "None"]
RetTasks(ts) == [kind |-> "tasks", tasks |-> ts]
RetAccount(a) == [kind |-> "account", account |-> a]

NoOutcome == [kind |-> "none"]
Returned(v) == [kind |-> "return", value |-> v]
Raised(e) == [kind |-> "raise", exc |-> e]

-----------------------------------------------------------------------------
(* Record schema *)

Min(a, b) == IF a < b THEN a ELSE b

T2 == "tt"
T4 == T2 \o T2
T16 == T4 \o T4 \o T4 \o T4
T64 == T16 \o T16 \o T16 \o T16
\* a title of TitleMax + 1 = 256 characters
LongTitle == T64 \o T64 \o T64 \o T64
ShortTitle == "buy milk"

\* Task(**data): the attributes the model carries are id_ and title
Task(id, title) == [id_ |-> id, title |-> title]

\* Length(max=255)
TitleValid(title) == Len(title) <= TitleMax

\* TaskSchema().dump(task).data: id_ is dumped to "id", title is copied.
\* The schema is not strict and dump runs no validator: the Length
\* constraint of `title` is applied by load only.
DumpTask(task) == [id |-> task.id_, title |-> task.title]

DumpTaskList(list) == [i \in 1..Len(list) |-> DumpTask(list[i])]

\* TaskSchema().load(x).data: "id" is loaded into id_; a title that fails
\* Length(max=255) is recorded as an error and left out, and MakeTask is
\* not run (the schema is not strict, so nothing is raised).
LoadTask(x) ==
  IF TitleValid(x.title) THEN Task(x.id, x.title) ELSE [id_ |-> x.id]

LoadTaskList(list) == [i \in 1..Len(list) |-> LoadTask(list[i])]

Unset == [set |-> FALSE, secs |-> 0]

\* ToodledoDatetime._deserialize: 0 is unset, anything else the local
\* wall-clock time of the epoch value (seconds, offset tzo from UTC)
ToodledoDatetimeDeserialize(value, tzo) ==
  IF value = 0 THEN Unset ELSE [set |-> TRUE, secs |-> value + tzo]

\* Account(lastEditTask, lastDeleteTask)
Account(lastEditTask, lastDeleteTask) ==
  [lastEditTask |-> lastEditTask, lastDeleteTask |-> lastDeleteTask]

\* taskList[start + 1: start + limit]: the first record of the chunk is lost
SliceSkipsFirst(list, from, limit) ==
  SubSeq(list, from + 2, Min(from + limit, Len(list)))

\* python: taskList[start: start + limit]
Slice(list, from, limit) == SubSeq(list, from + 1, Min(from + limit, Len(list)))

-----------------------------------------------------------------------------
(* The transport: what a session.get / session.post call can produce *)

ErrorBody(c) == [kind |-> "error", errorCode |-> c]
ListBody(items) == [kind |-> "list", items |-> items]
AccountBody(e, d) == [kind |-> "account", lastedit_task |-> e, lastdelete_task |-> d]

\* python: "errorCode" in response.json()
HasErrorCode(body) == body.kind = "error"

ErrorCodes == {2, 601, 999}
ErrorStatuses == {401, 500}
PageSizes == {0, 1, 400, ReadLimit - 1, ReadLimit}
AccountStamps == {0, 1500000000}

\* a page of the server's tasks: the count marker, then sz task records
Page(from, sz) ==
  ListBody(<<[num |-> sz, total |-> sz]>> \o
           [i \in 1..sz |-> [id |-> from + i, title |-> ShortTitle]])

\* the JSON bodies a successful answer to request number n can carry
OkBodies(o, n, from) ==
  CASE o = "GetAccount" ->
         {AccountBody(e, d) : e \in AccountStamps, d \in AccountStamps}
    [] o = "GetTasks" ->
         {Page(from, sz) : sz \in {z \in PageSizes : z < ReadLimit \/ n < MaxPages}}
    [] OTHER -> {ListBody(<<>>)}

Responses(o, n, from) ==
  {[tokenError |-> FALSE, status |-> 200, body |-> b] :
      b \in OkBodies(o, n, from) \cup {ErrorBody(c) : c \in ErrorCodes}}
  \cup
  {[tokenError |-> FALSE, status |-> s, body |-> ErrorBody(c)] :
      s \in ErrorStatuses, c \in ErrorCodes}

TokenFailure == [tokenError |-> TRUE]

\* the access token can be missing from the start or expire before any request
TransportOutcomes(o, n, from) ==
  IF tokenOk THEN Responses(o, n, from) \cup {TokenFailure} ELSE {TokenFailure}

\* raise_for_status() left out
RaiseForStatusNever(status) == FALSE

\* response.raise_for_status()
RaiseForStatus(status) == 400 <= status /\ status < 600

-----------------------------------------------------------------------------
(* Inputs of a call *)

ListSizes ==
  {0, 1, WriteLimit - 1, WriteLimit + 1, 2 * WriteLimit + 20}
  \cup {WriteLimit * k : k \in 1..MaxChunks}

\* tasks 1..n; the task at position bad (if any) has a title of 256 characters
MakeList(n, bad) ==
  [i \in 1..n |-> Task(i, IF i = bad THEN LongTitle ELSE ShortTitle)]

TaskLists == {MakeList(n, bad) : n \in ListSizes, bad \in {0, 1, WriteLimit + 1}}

ParamsSet == {[comp |-> 0], [comp |-> 1]}

\* no field codec is at work
CodecIdle == [field |-> "none", stage |-> "idle"]

Init ==
  /\ tokenOk \in BOOLEAN
  /\ tz \in {0, -18000}
  /\ pc = "idle"
  /\ op = "none"
  /\ via = "none"
  /\ params = [comp |-> 0]
  /\ taskList = <<>>
  /\ start = 0
  /\ allTasks = <<>>
  /\ requests = <<>>
  /\ served = <<>>
  /\ funcOutcome = NoOutcome
  /\ callerOutcome = NoOutcome
  /\ session = "session0"
  /\ attempts = 0
  /\ authorizeCalls = 0
  /\ codec = CodecIdle

-----------------------------------------------------------------------------
(* Module-level functions *)

\* the names bound at module level: the imports, the classes, the functions
ModuleNames ==
  {"date", "datetime", "partial", "dump", "dumps", "load", "debug", "error",
   "fields", "post_load", "pre_load", "Schema", "Length", "OAuth2Session",
   "ToodledoDate", "ToodledoDatetime", "ToodledoTags", "Task",
   "ToodledoError", "TaskSchema", "Account", "AccountSchema", "DumpTaskList",
   "GetAccount", "GetTasks", "EditTasks", "AddTasks", "DeleteTasks",
   "Toodledo"}

\* tasks[2:] instead of tasks[1:]: the first task goes with the marker
StripMarkerAndFirst(tasks) == SubSeq(tasks, 3, Len(tasks))

\* python: tasks[1:], the first field contains the count or the error code
StripMarker(tasks) == Tail(tasks)

\* the empty-input test left out
IsEmptyInputNever(list) == FALSE

\* python: if len(taskList) == 0: return
IsEmptyInput(list) == Len(list) = 0

\* <= instead of <: a full chunk ends the loop
IsLastChunkInclusive(chunk, limit) == Len(chunk) <= limit

\* python: if len(...) < limit: break
IsLastChunk(chunk, limit) == Len(chunk) < limit

\* start += limit + 1: every loop round skips one record
NextStartSkipsOne(from, limit) == from + limit + 1

\* python: start += limit
NextStart(from, limit) == from + limit

\* python: [task.id_ for task in taskList]
TaskIdList(list) == [i \in 1..Len(list) |-> list[i].id_]

\* AccountSchema().load(accountInfo.json()).data: a field missing from the
\* body is skipped, then MakeAccount indexes data["lastEditTask"]
LoadAccount(body, tzo) ==
  IF body.kind = "account"
    THEN Returned(RetAccount(Account(
           ToodledoDatetimeDeserialize(body.lastedit_task, tzo),
           ToodledoDatetimeDeserialize(body.lastdelete_task, tzo))))
    ELSE Raised(KeyError("lastEditTask"))

\* the function ends with outcome o
Finish(o) ==
  /\ funcOutcome' = o
  /\ pc' = "unwind"

\* the prologue of the function: locals set, empty input returns at once
Enter(o, p, l) ==
  /\ op' = o
  /\ params' = p
  /\ taskList' = l
  /\ start' = 0
  /\ allTasks' = <<>>
  /\ attempts' = attempts + 1
  /\ IF o \in WriteOps /\ IsEmptyInput(l)
       THEN Finish(Returned(RetNone))
       ELSE /\ pc' = "loop"
            /\ funcOutcome' = NoOutcome

GetAccountBody ==
  /\ pc = "loop"
  /\ op = "GetAccount"
  /\ \E out \in TransportOutcomes(op, 1, 0) :
       /\ requests' = Append(requests, [method |-> "get", url |-> getAccountUrl])
       /\ IF out.tokenError
            THEN /\ Finish(Raised(TokenMissing))
                 /\ tokenOk' = FALSE
                 /\ served' = served
            ELSE /\ served' = Append(served, out)
                 /\ tokenOk' = tokenOk
                 /\ IF RaiseForStatus(out.status)
                      THEN Finish(Raised(HTTPError))
                      ELSE Finish(LoadAccount(out.body, tz))
  /\ UNCHANGED <<codec, tz, op, via, params, taskList, start, allTasks,
                 callerOutcome, session, attempts, authorizeCalls>>

\* one iteration of the `while True` loop of GetTasks
GetTasksIter ==
  /\ pc = "loop"
  /\ op = "GetTasks"
  /\ \E out \in TransportOutcomes(op, Len(requests) + 1, start) :
       /\ requests' = Append(requests,
            [method |-> "get", url |-> getTasksUrl,
             params |-> [comp |-> params.comp, start |-> start, num |-> ReadLimit]])
       /\ IF out.tokenError
            THEN /\ Finish(Raised(TokenMissing))
                 /\ tokenOk' = FALSE
                 /\ UNCHANGED <<served, start, allTasks>>
            ELSE /\ served' = Append(served, out)
                 /\ tokenOk' = tokenOk
                 /\ IF RaiseForStatus(out.status)
                      THEN /\ Finish(Raised(HTTPError))
                           /\ UNCHANGED <<start, allTasks>>
                      ELSE IF HasErrorCode(out.body)
                        THEN /\ Finish(Raised(ToodledoError(out.body.errorCode)))
                             /\ UNCHANGED <<start, allTasks>>
                        ELSE LET got == StripMarker(out.body.items)
                                 all == allTasks \o got
                             IN  /\ allTasks' = all
                                 /\ IF IsLastChunk(got, ReadLimit)
                                      THEN /\ Finish(Returned(RetTasks(LoadTaskList(all))))
                                           /\ start' = start
                                      ELSE /\ start' = NextStart(start, ReadLimit)
                                           /\ UNCHANGED <<pc, funcOutcome>>
  /\ UNCHANGED <<codec, tz, op, via, params, taskList, callerOutcome, session,
                 attempts, authorizeCalls>>

\* one iteration of the `while True` loop of a batched write: the chunk is
\* encoded, posted, and the answer examined; errorExc[c] is what the
\* `raise` statement for error code c raises
WriteStep(url, chunk, payload, errorExc) ==
  \E out \in TransportOutcomes(op, Len(requests) + 1, start) :
    /\ requests' = Append(requests,
         [method |-> "post", url |-> url, params |-> [tasks |-> payload]])
    /\ IF out.tokenError
         THEN /\ Finish(Raised(TokenMissing))
              /\ tokenOk' = FALSE
              /\ UNCHANGED <<served, start>>
         ELSE /\ served' = Append(served, out)
              /\ tokenOk' = tokenOk
              /\ IF RaiseForStatus(out.status)
                   THEN /\ Finish(Raised(HTTPError))
                        /\ start' = start
                   ELSE IF HasErrorCode(out.body)
                     THEN /\ Finish(Raised(errorExc[out.body.errorCode]))
                          /\ start' = start
                     ELSE IF IsLastChunk(chunk, WriteLimit)
                       THEN /\ Finish(Returned(RetNone))
                            /\ start' = start
                       ELSE /\ start' = NextStart(start, WriteLimit)
                            /\ UNCHANGED <<pc, funcOutcome>>
    /\ UNCHANGED <<codec, tz, op, via, params, taskList, allTasks, callerOutcome,
                   session, attempts, authorizeCalls>>

EditTasksIter ==
  /\ pc = "loop"
  /\ op = "EditTasks"
  /\ LET chunk == Slice(taskList, start, WriteLimit)
     IN  WriteStep(editTasksUrl, chunk, DumpTaskList(chunk),
                   [c \in ErrorCodes |-> ToodledoError(c)])

\* `raise ToodledoError(tasks["errorCode"])`: no name `tasks` is bound in
\* AddTasks or at module level, so evaluating the argument raises NameError
AddTasksIter ==
  /\ pc = "loop"
  /\ op = "AddTasks"
  /\ LET chunk == Slice(taskList, start, WriteLimit)
     IN  WriteStep(addTasksUrl, chunk, DumpTaskList(chunk),
                   [c \in ErrorCodes |->
                      IF "tasks" \in ModuleNames
                        THEN ToodledoError(c) ELSE NameError("tasks")])

DeleteTasksIter ==
  /\ pc = "loop"
  /\ op = "DeleteTasks"
  /\ LET chunk == Slice(TaskIdList(taskList), start, WriteLimit)
     IN  WriteStep(deleteTasksUrl, chunk, chunk,
                   [c \in ErrorCodes |->
                      IF "tasks" \in ModuleNames
                        THEN ToodledoError(c) ELSE NameError("tasks")])

-----------------------------------------------------------------------------
(* Callers *)

ParamsFor(o) == IF o = "GetTasks" THEN ParamsSet ELSE {[comp |-> 0]}
ListsFor(o) == IF o \in WriteOps THEN TaskLists ELSE {<<>>}

\* a module-level function is called with a session
CallModule ==
  /\ pc = "idle"
  /\ \E o \in Ops : \E p \in ParamsFor(o), l \in ListsFor(o) : Enter(o, p, l)
  /\ via' = "module"
  /\ UNCHANGED <<codec, tokenOk, tz, requests, served, callerOutcome, session,
                 authorizeCalls>>

\* the module-level call returns or raises to its caller
ModuleReturn ==
  /\ pc = "unwind"
  /\ via = "module"
  /\ callerOutcome' = funcOutcome
  /\ pc' = "done"
  /\ UNCHANGED <<codec, tokenOk, tz, op, via, params, taskList, start, allTasks,
                 requests, served, funcOutcome, session, attempts,
                 authorizeCalls>>

\* the keyword the Toodledo method binds with partial(..., params=params)
\* against the second parameter of the function's signature
SecondParameter(o) == IF o = "GetTasks" THEN "params" ELSE "taskList"

\* func(self.session) can bind its arguments: partial(GetAccount) carries no
\* keyword, the other four carry the keyword `params`
BindsArguments(o) == o = "GetAccount" \/ SecondParameter(o) = "params"

\* a method of the Toodledo client is called: ReauthorizeIfNecessary runs
\* func(self.session) inside its try block
CallClient ==
  /\ pc = "idle"
  /\ \E o \in Ops : \E p \in ParamsFor(o), l \in ListsFor(o) :
       IF BindsArguments(o)
         THEN Enter(o, p, l)
         ELSE /\ op' = o
              /\ taskList' = l
              /\ attempts' = attempts + 1
              /\ Finish(Raised(TypeError("unexpected keyword argument 'params'")))
              /\ UNCHANGED <<params, start, allTasks>>
  /\ via' = "client"
  /\ UNCHANGED <<codec, tokenOk, tz, requests, served, callerOutcome, session,
                 authorizeCalls>>

\* func(token): Authorize returns the token mapping, not a session, so the
\* second run fails on its first use of the session argument
RunOnToken(o) ==
  CASE o = "GetAccount" -> Raised(AttributeError("'NoneType' object has no attribute 'raise_for_status'"))
    [] o = "GetTasks" -> Raised(TypeError("get() takes no keyword arguments"))
    [] OTHER -> Raised(TypeError("unexpected keyword argument 'params'"))

\* a Toodledo method has no return statement: the value of
\* ReauthorizeIfNecessary is dropped
MethodResult(w) == IF w.kind = "return" THEN Returned(RetNone) ELSE w

\* the rest of ReauthorizeIfNecessary once func(self.session) has ended, and
\* the end of the Toodledo method that called it.  An exception reaches
\* `except TokenMissingError:`, whose name is looked up at that moment.
ReauthorizeIfNecessary ==
  /\ pc = "unwind"
  /\ via = "client"
  /\ pc' = "done"
  /\ IF funcOutcome.kind = "return"
       THEN /\ callerOutcome' = MethodResult(funcOutcome)
            /\ UNCHANGED <<session, attempts, authorizeCalls>>
       ELSE IF "TokenMissingError" \notin ModuleNames
         THEN /\ callerOutcome' = Raised(NameError("TokenMissingError"))
              /\ UNCHANGED <<session, attempts, authorizeCalls>>
         ELSE IF funcOutcome.exc.type = "TokenMissingError"
           THEN /\ authorizeCalls' = authorizeCalls + 1
                /\ session' = "token"
                /\ attempts' = attempts + 1
                /\ callerOutcome' = MethodResult(RunOnToken(op))
           ELSE /\ callerOutcome' = funcOutcome
                /\ UNCHANGED <<session, attempts, authorizeCalls>>
  /\ UNCHANGED <<codec, tokenOk, tz, op, via, params, taskList, start, allTasks,
                 requests, served, funcOutcome>>

Next ==
  \/ CallModule
  \/ CallClient
  \/ GetAccountBody
  \/ GetTasksIter
  \/ EditTasksIter
  \/ AddTasksIter
  \/ DeleteTasksIter
  \/ ModuleReturn
  \/ ReauthorizeIfNecessary

Spec == Init /\ [][Next]_vars

-----------------------------------------------------------------------------
(* Field codecs: optional date, optional datetime *)

\* a calendar date is the number of its day, 1970-01-01 being day 0; a naive
\* datetime is its wall-clock seconds since 1970-01-01T00:00:00; a timestamp
\* is seconds since the epoch.  The local zone is tzo seconds east of UTC.
DateNone == [set |-> FALSE, days |-> 0]
DateOf(d) == [set |-> TRUE, days |-> d]
DatetimeOf(secs) == [set |-> TRUE, secs |-> secs]

\* ToodledoDate._serialize: None is 0; otherwise the timestamp of
\* datetime(year, month, day), which is 00:00 of that day in local time
ToodledoDateSerialize(value, tzo) ==
  IF ~value.set THEN 0 ELSE value.days * 86400 - tzo

\* ToodledoDate._deserialize: 0 is None; otherwise date.fromtimestamp, the
\* local date of the timestamp
ToodledoDateDeserialize(value, tzo) ==
  IF value = 0 THEN DateNone ELSE DateOf((value + tzo) \div 86400)

\* ToodledoDatetime._serialize: None is 0; otherwise value.timestamp() of
\* the naive local datetime
ToodledoDatetimeSerialize(value, tzo) ==
  IF ~value.set THEN 0 ELSE value.secs - tzo

TzOffsets == {-43200, -18000, 0, 3600, 19800, 43200}
DateDays == {-1, 0, 1, 365, 19000}
Instants == {-3600, 0, 1, 43200, 1500000000}
WireStamps == {0, 1, 43200, 86400, 1500000000}

DateValues == {DateNone} \cup {DateOf(d) : d \in DateDays}
DatetimeValues(tzo) == {Unset} \cup {DatetimeOf(i + tzo) : i \in Instants}

\* a date or datetime codec is handed an in-memory value / a wire value
FromValue(field, v) ==
  [field |-> field, from |-> "value", stage |-> "value", value |-> v]
FromWire(field, w) ==
  [field |-> field, from |-> "wire", stage |-> "wire", wire |-> w]

AfterSerialize(w) ==
  [field |-> codec.field, from |-> codec.from, stage |-> "wire",
   value |-> codec.value, wire |-> w]
AfterDeserialize(b) ==
  IF codec.from = "value"
    THEN [field |-> codec.field, from |-> codec.from, stage |-> "decoded",
          value |-> codec.value, wire |-> codec.wire, back |-> b]
    ELSE [field |-> codec.field, from |-> codec.from, stage |-> "decoded",
          wire |-> codec.wire, back |-> b]

MainUnchanged ==
  UNCHANGED <<tokenOk, tz, pc, op, via, params, taskList, start, allTasks,
              requests, served, funcOutcome, callerOutcome, session,
              attempts, authorizeCalls>>

SerializeDate ==
  /\ codec.field = "date"
  /\ codec.stage = "value"
  /\ codec' = AfterSerialize(ToodledoDateSerialize(codec.value, tz))
  /\ MainUnchanged

DeserializeDate ==
  /\ codec.field = "date"
  /\ codec.stage = "wire"
  /\ codec' = AfterDeserialize(ToodledoDateDeserialize(codec.wire, tz))
  /\ MainUnchanged

SerializeDatetime ==
  /\ codec.field = "datetime"
  /\ codec.stage = "value"
  /\ codec' = AfterSerialize(ToodledoDatetimeSerialize(codec.value, tz))
  /\ MainUnchanged

DeserializeDatetime ==
  /\ codec.field = "datetime"
  /\ codec.stage = "wire"
  /\ codec' = AfterDeserialize(ToodledoDatetimeDeserialize(codec.wire, tz))
  /\ MainUnchanged

-----------------------------------------------------------------------------
(* Field codec: tags.  A string is the sequence of its characters. *)

\* code points of the characters the model uses
Ord(c) ==
  CASE c = " " -> 32
    [] c = "," -> 44
    [] c = "a" -> 97
    [] c = "b" -> 98

\* python: a < b on str
RECURSIVE StrLess(_, _)
StrLess(a, b) ==
  IF Len(b) = 0 THEN FALSE
  ELSE IF Len(a) = 0 THEN TRUE
  ELSE IF Ord(a[1]) # Ord(b[1]) THEN Ord(a[1]) < Ord(b[1])
  ELSE StrLess(Tail(a), Tail(b))

\* list with x put before the first element greater than x
RECURSIVE Insert(_, _)
Insert(x, list) ==
  IF Len(list) = 0 THEN <<x>>
  ELSE IF StrLess(x, list[1]) THEN <<x>> \o list
  ELSE <<list[1]>> \o Insert(x, Tail(list))

\* python: sorted(value)
RECURSIVE Sorted(_)
Sorted(list) ==
  IF Len(list) = 0 THEN <<>> ELSE Insert(list[Len(list)], Sorted(SubSeq(list, 1, Len(list) - 1)))

\* python: ", ".join(list)
RECURSIVE Join(_)
Join(list) ==
  IF Len(list) = 0 THEN <<>>
  ELSE IF Len(list) = 1 THEN list[1]
  ELSE list[1] \o <<",", " ">> \o Join(Tail(list))

\* python: value.split(",")
RECURSIVE Split(_)
Split(str) ==
  IF \E i \in 1..Len(str) : str[i] = ","
    THEN LET i == CHOOSE k \in 1..Len(str) :
                    str[k] = "," /\ \A m \in 1..(k - 1) : str[m] # ","
         IN  <<SubSeq(str, 1, i - 1)>> \o Split(SubSeq(str, i + 1, Len(str)))
    ELSE <<str>>

\* python: x.strip()
RECURSIVE Strip(_)
Strip(str) ==
  IF Len(str) = 0 THEN str
  ELSE IF str[1] = " " THEN Strip(Tail(str))
  ELSE IF str[Len(str)] = " " THEN Strip(SubSeq(str, 1, Len(str) - 1))
  ELSE str

\* sorted left out: the tags are joined in the caller's order
ToodledoTagsSerializeUnsorted(value) == Join(value)

\* ToodledoTags._serialize
ToodledoTagsSerialize(value) == Join(Sorted(value))

\* ToodledoTags._deserialize
ToodledoTagsDeserialize(value) ==
  IF value = <<>> THEN <<>>
  ELSE LET pieces == Split(value)
       IN  [i \in 1..Len(pieces) |-> Strip(pieces[i])]

\* lists of at most MaxTags tags are tried
MaxTags == 2

TagStrings ==
  {<<>>, <<"a">>, <<"b">>, <<"a", "b">>, <<"b", " ", "a">>,
   <<" ", "b">>, <<"a", " ">>, <<" ">>, <<"a", ",", "b">>, <<",">>}

RECURSIVE TagListsOfLen(_)
TagListsOfLen(n) ==
  IF n = 0 THEN {<<>>}
  ELSE {Append(l, t) : l \in TagListsOfLen(n - 1), t \in TagStrings}

TagLists == UNION {TagListsOfLen(n) : n \in 0..MaxTags}

WireTagStrings ==
  {<<>>, <<"a">>, <<"a", ",", " ", "b">>, <<"b", ",", "a">>, <<",">>,
   <<" ", "a", " ", ",", ",", "b">>}

SerializeTags ==
  /\ codec.field = "tags"
  /\ codec.stage = "value"
  /\ codec' = [field |-> "tags", from |-> "value", stage |-> "wire",
               tags |-> codec.tags, text |-> ToodledoTagsSerialize(codec.tags)]
  /\ MainUnchanged

DeserializeTags ==
  /\ codec.field = "tags"
  /\ codec.stage = "wire"
  /\ codec' = IF codec.from = "value"
                 THEN [field |-> "tags", from |-> "value", stage |-> "decoded",
                       tags |-> codec.tags, text |-> codec.text,
                       back |-> ToodledoTagsDeserialize(codec.text)]
                 ELSE [field |-> "tags", from |-> "wire", stage |-> "decoded",
                       text |-> codec.text,
                       back |-> ToodledoTagsDeserialize(codec.text)]
  /\ MainUnchanged

-----------------------------------------------------------------------------
(* Task objects with a completion date *)

\* TaskSchema().load(x).data for a wire record that may carry "completed":
\* a field missing from the record is skipped, so the Task gets no
\* completedDate attribute
LoadTaskRecord(x, tzo) ==
  IF "completed" \in DOMAIN x
    THEN [id_ |-> x.id, title |-> x.title,
          completedDate |-> ToodledoDateDeserialize(x.completed, tzo)]
    ELSE LoadTask(x)

\* Task.IsComplete: self.completedDate is not None
IsComplete(task) ==
  IF "completedDate" \in DOMAIN task
    THEN Returned(task.completedDate.set)
    ELSE Raised(AttributeError("'Task' object has no attribute 'completedDate'"))

WireTasks ==
  {[id |-> 1, title |-> ShortTitle],
   [id |-> 1, title |-> ShortTitle, completed |-> 0],
   [id |-> 1, title |-> ShortTitle, completed |-> 1500000000]}

\* Task(**data) built by the caller
BuiltTasks ==
  {Task(1, ShortTitle),
   [id_ |-> 1, title |-> ShortTitle, completedDate |-> DateNone],
   [id_ |-> 1, title |-> ShortTitle, completedDate |-> DateOf(19000)]}

LoadWireTask ==
  /\ codec.field = "task"
  /\ codec.stage = "wire"
  /\ codec' = [field |-> "task", from |-> "wire", stage |-> "task",
               record |-> codec.record,
               task |-> LoadTaskRecord(codec.record, tz)]
  /\ MainUnchanged

IsCompleteCall ==
  /\ codec.field = "task"
  /\ codec.stage = "task"
  /\ codec' = [field |-> "task", from |-> codec.from, stage |-> "called",
               task |-> codec.task, result |-> IsComplete(codec.task)]
  /\ MainUnchanged

CodecInputs(tzo) ==
  {FromValue("date", v) : v \in DateValues}
  \cup {FromWire("date", w) : w \in WireStamps}
  \cup {FromValue("datetime", v) : v \in DatetimeValues(tzo)}
  \cup {FromWire("datetime", w) : w \in WireStamps}
  \cup {[field |-> "tags", from |-> "value", stage |-> "value", tags |-> l] :
          l \in TagLists}
  \cup {[field |-> "tags", from |-> "wire", stage |-> "wire", text |-> w] :
          w \in WireTagStrings}
  \cup {[field |-> "task", from |-> "wire", stage |-> "wire", record |-> x] :
          x \in WireTasks}
  \cup {[field |-> "task", from |-> "value", stage |-> "task", task |-> t] :
          t \in BuiltTasks}

\* a codec or Task method is exercised on its own: no call is in progress
CodecInit ==
  /\ tokenOk = TRUE
  /\ tz \in TzOffsets
  /\ pc = "idle"
  /\ op = "none"
  /\ via = "none"
  /\ params = [comp |-> 0]
  /\ taskList = <<>>
  /\ start = 0
  /\ allTasks = <<>>
  /\ requests = <<>>
  /\ served = <<>>
  /\ funcOutcome = NoOutcome
  /\ callerOutcome = NoOutcome
  /\ session = "session0"
  /\ attempts = 0
  /\ authorizeCalls = 0
  /\ codec \in CodecInputs(tz)

CodecNext ==
  \/ SerializeDate
  \/ DeserializeDate
  \/ SerializeDatetime
  \/ DeserializeDatetime
  \/ SerializeTags
  \/ DeserializeTags
  \/ LoadWireTask
  \/ IsCompleteCall

CodecSpec == CodecInit /\ [][CodecNext]_vars

-----------------------------------------------------------------------------
(* Properties *)

Is2xx(r) == 200 <= r.status /\ r.status <= 299
IsSuccess(r) == Is2xx(r) /\ r.body.kind # "error"
NoTokenFailure == Len(served) = Len(requests)
AllSuccess == \A i \in 1..Len(served) : IsSuccess(served[i])

\* the tasks carried by the i-th response: everything after the marker
PageTasks(i) == SubSeq(served[i].body.items, 2, Len(served[i].body.items))

RECURSIVE PagesConcat(_)
PagesConcat(k) == IF k = 0 THEN <<>> ELSE PagesConcat(k - 1) \o PageTasks(k)

\* the task objects of a list of wire records
Decoded(list) ==
  [i \in 1..Len(list) |-> [id_ |-> list[i].id, title |-> list[i].title]]

\* C1: paged read.  Every request of GetTasks number i carries start =
\* 1000*(i-1) and num = 1000; as long as every page received holds exactly
\* 1000 tasks the loop goes on; once the first k-1 pages held 1000 tasks and
\* the k-th fewer, exactly k requests were issued and the result is the
\* tasks of pages 1..k in page order, markers removed.
C1_PagedRead ==
  op = "GetTasks" =>
    /\ \A i \in 1..Len(requests) :
         /\ requests[i].method = "get"
         /\ requests[i].url = getTasksUrl
         /\ requests[i].params.start = 1000 * (i - 1)
         /\ requests[i].params.num = 1000
         /\ requests[i].params.comp = params.comp
    /\ (AllSuccess /\ NoTokenFailure) =>
         LET k == Len(served)
         IN  /\ \A i \in 1..(k - 1) : Len(PageTasks(i)) = 1000
             /\ IF k >= 1 /\ Len(PageTasks(k)) < 1000
                  THEN /\ pc # "loop"
                       /\ funcOutcome = Returned(RetTasks(Decoded(PagesConcat(k))))
                  ELSE /\ pc = "loop"
                       /\ funcOutcome = NoOutcome

\* pages of 1000, 1000 and 400 tasks: 3 requests, 2400 tasks returned
C1_Witness ==
  /\ op = "GetTasks"
  /\ via = "module"
  /\ pc = "done"
  /\ Len(requests) = 3
  /\ Len(served) = 3
  /\ AllSuccess
  /\ Len(PageTasks(1)) = 1000
  /\ Len(PageTasks(2)) = 1000
  /\ Len(PageTasks(3)) = 400
  /\ requests[3].params.start = 2000
  /\ callerOutcome.kind = "return"
  /\ Len(callerOutcome.value.tasks) = 2400
  /\ callerOutcome.value.tasks[2400].id_ = 2400

\* what a batched write sends for a task list: the wire records for
\* Edit/Add, the identifiers for Delete
WireInput ==
  IF op = "DeleteTasks"
    THEN [i \in 1..Len(taskList) |-> taskList[i].id_]
    ELSE [i \in 1..Len(taskList) |->
            [id |-> taskList[i].id_, title |-> taskList[i].title]]

Payload(i) == requests[i].params.tasks

RECURSIVE PayloadsConcat(_)
PayloadsConcat(k) == IF k = 0 THEN <<>> ELSE PayloadsConcat(k - 1) \o Payload(k)

WriteUrl ==
  CASE op = "EditTasks" -> editTasksUrl
    [] op = "AddTasks" -> addTasksUrl
    [] op = "DeleteTasks" -> deleteTasksUrl

WriteSucceeded ==
  /\ op \in WriteOps
  /\ Len(taskList) > 0
  /\ funcOutcome = Returned(RetNone)

\* C2: batched write chunking.  The i-th request of EditTasks, AddTasks or
\* DeleteTasks carries the slice [50(i-1), 50i) of the input, in input
\* order, never more than 50 items; when the operation has succeeded on a
\* non-empty list the payloads concatenated are the input, every input
\* record is in exactly one payload, and 120 records went out as 50, 50, 20.
C2_BatchedWriteChunking ==
  op \in WriteOps =>
    LET n == Len(taskList)
        input == WireInput
    IN  /\ \A i \in 1..Len(requests) :
             /\ requests[i].method = "post"
             /\ requests[i].url = WriteUrl
             /\ Len(Payload(i)) <= 50
             /\ Payload(i) =
                  [j \in 1..(Min(50 * i, n) - Min(50 * (i - 1), n)) |->
                     input[50 * (i - 1) + j]]
        /\ WriteSucceeded =>
             /\ AllSuccess
             /\ PayloadsConcat(Len(requests)) = input
             /\ \A j \in 1..n :
                  Cardinality({i \in 1..Len(requests) :
                     \E q \in 1..Len(Payload(i)) : Payload(i)[q] = input[j]}) = 1
             /\ n = 120 =>
                  [i \in 1..Len(requests) |-> Len(Payload(i))] = <<50, 50, 20>>

\* EditTasks of 120 records has returned after requests of 50, 50 and 20
C2_Witness ==
  /\ WriteSucceeded
  /\ op = "EditTasks"
  /\ pc = "done"
  /\ Len(taskList) = 120
  /\ Len(requests) = 3
  /\ Len(Payload(3)) = 20
  /\ Payload(3)[20] = [id |-> 120, title |-> ShortTitle]

\* C3: in GetTasks, AddTasks, EditTasks and DeleteTasks a 2xx response
\* whose body contains an errorCode c ends the operation: no further
\* request, and it fails with ToodledoError carrying c and the message of
\* the table for c, "Unknown error" for a code that is not in the table.
C3_ErrorCodeRaisesToodledoError ==
  op \in {"GetTasks", "AddTasks", "EditTasks", "DeleteTasks"} =>
    \A i \in 1..Len(served) :
      (Is2xx(served[i]) /\ served[i].body.kind = "error") =>
        LET c == served[i].body.errorCode
        IN  /\ i = Len(served)
            /\ Len(requests) = i
            /\ pc # "loop"
            /\ funcOutcome.kind = "raise"
            /\ funcOutcome.exc.type = "ToodledoError"
            /\ funcOutcome.exc.code = c
            /\ c = 601 => funcOutcome.exc.message = "Your task must have a title."
            /\ c = 999 => funcOutcome.exc.message = "Unknown error"

FirstRunLackedToken ==
  /\ via = "client"
  /\ pc = "done"
  /\ funcOutcome = Raised(TokenMissing)

\* C4: reauthorize and retry.  When the operation run by a Toodledo method
\* fails because the access token is missing or expired, Authorize is called
\* exactly once, the client's session is replaced by a new session, and the
\* operation is run exactly once more.
C4_ReauthorizeAndRetry ==
  FirstRunLackedToken =>
    /\ authorizeCalls = 1
    /\ attempts = 2
    /\ session \notin {"session0", "token"}

\* C5: Toodledo.GetTasks and Toodledo.GetAccount return to their caller the
\* value the wrapped module-level operation returned.
C5_ClientReturnsResult ==
  (via = "client" /\ op \in ReadOps /\ pc = "done" /\ funcOutcome.kind = "return") =>
    callerOutcome = funcOutcome

\* C6: EditTasks, AddTasks and DeleteTasks called with an empty list issue
\* no request, and the module-level function returns at once with success,
\* whether or not the session holds a usable token.
C6_EmptyInputIsNoOp ==
  (op \in WriteOps /\ Len(taskList) = 0) =>
    /\ requests = <<>>
    /\ served = <<>>
    /\ via = "module" =>
         /\ pc \in {"unwind", "done"}
         /\ funcOutcome = Returned(RetNone)
         /\ pc = "done" => callerOutcome = Returned(RetNone)

\* DeleteTasks([]) has returned on a session without a usable token
C6_Witness ==
  /\ op = "DeleteTasks"
  /\ via = "module"
  /\ ~tokenOk
  /\ Len(taskList) = 0
  /\ pc = "done"
  /\ callerOutcome = Returned(RetNone)
  /\ requests = <<>>

\* C7: exact multiple.  A batched write that has succeeded on a non-empty
\* list of n records issued n \div 50 + 1 requests; when n = 50k these are
\* k requests of 50 items followed by one with an empty payload.
C7_ExactMultipleTrailingRequest ==
  WriteSucceeded =>
    LET n == Len(taskList)
        k == n \div 50
    IN  /\ Len(requests) = k + 1
        /\ n % 50 = 0 =>
             /\ \A i \in 1..k : Len(Payload(i)) = 50
             /\ Payload(k + 1) = <<>>

\* DeleteTasks of 100 records has returned after requests of 50, 50 and 0
C7_Witness ==
  /\ WriteSucceeded
  /\ op = "DeleteTasks"
  /\ pc = "done"
  /\ Len(taskList) = 100
  /\ Len(requests) = 3
  /\ Len(Payload(1)) = 50
  /\ Len(Payload(2)) = 50
  /\ Len(Payload(3)) = 0

HasLongTitle ==
  \E i \in 1..Len(taskList) : Len(taskList[i].title) > 255

\* C8: validation before sending.  AddTasks or EditTasks of a list that
\* holds a task with a title of more than 255 characters issues no request
\* at all and fails with a validation error (sessions whose token fails
\* before the request leaves are set aside).
C8_ValidationBeforeSending ==
  (op \in {"AddTasks", "EditTasks"} /\ via = "module" /\ HasLongTitle
     /\ NoTokenFailure) =>
    /\ requests = <<>>
    /\ pc \in {"unwind", "done"} =>
         /\ funcOutcome.kind = "raise"
         /\ funcOutcome.exc.type = "ValidationError"

\* C9: abort on transport failure.  In all five operations a response that
\* is not 2xx is the last one of the operation: no further request is
\* issued, the operation fails with the transport's HTTP error and returns
\* no value.
C9_AbortOnTransportFailure ==
  \A i \in 1..Len(served) :
    ~Is2xx(served[i]) =>
      /\ i = Len(served)
      /\ Len(requests) = i
      /\ pc # "loop"
      /\ funcOutcome = Raised(HTTPError)
      /\ (via = "module" /\ pc = "done") => callerOutcome = Raised(HTTPError)

\* GetTasks received a full page, then a 500: two requests, HTTP error
C9_Witness ==
  /\ op = "GetTasks"
  /\ via = "module"
  /\ pc = "done"
  /\ Len(requests) = 2
  /\ Len(served) = 2
  /\ IsSuccess(served[1])
  /\ Len(PageTasks(1)) = 1000
  /\ served[2].status = 500
  /\ callerOutcome = Raised(HTTPError)

\* C10: retry only for reauthorization.  When the operation run by a
\* Toodledo method fails with a transport error or a service error, it was
\* run exactly once, Authorize was not called, the session is unchanged and
\* the caller receives that same error.
C10_OtherErrorsPropagate ==
  (/\ via = "client"
   /\ pc = "done"
   /\ funcOutcome.kind = "raise"
   /\ funcOutcome.exc.type \in {"HTTPError", "ToodledoError"}) =>
    /\ attempts = 1
    /\ authorizeCalls = 0
    /\ session = "session0"
    /\ callerOutcome = funcOutcome

\* C11: the write methods of the client reach the batch transport.  A
\* Toodledo.EditTasks, AddTasks or DeleteTasks call with a non-empty list, on
\* a session with a usable token and a server that answers every request
\* with success, has issued the n \div 50 + 1 requests of the module-level
\* operation when it ends, and returns without raising.
C11_ClientWritesReachTransport ==
  (/\ via = "client"
   /\ op \in WriteOps
   /\ Len(taskList) > 0
   /\ pc = "done"
   /\ tokenOk
   /\ AllSuccess) =>
    /\ callerOutcome = Returned(RetNone)
    /\ Len(requests) = Len(taskList) \div 50 + 1
    /\ \A i \in 1..Len(requests) :
         Payload(i) =
           [j \in 1..(Min(50 * i, Len(taskList)) - Min(50 * (i - 1), Len(taskList))) |->
              WireInput[50 * (i - 1) + j]]

DateRoundTripDone ==
  /\ codec.field = "date"
  /\ codec.from = "value"
  /\ codec.stage = "decoded"

\* C12: date codec round trip.  For every calendar date d, 1970-01-01
\* included, and every local timezone offset, decoding the encoding of d
\* gives d.
C12_DateRoundTrip ==
  (DateRoundTripDone /\ codec.value.set) => codec.back = codec.value

TagsRoundTripDone ==
  /\ codec.field = "tags"
  /\ codec.from = "value"
  /\ codec.stage = "decoded"

Trimmed(list) == [i \in 1..Len(list) |-> Strip(list[i])]

\* no comma, no leading or trailing whitespace
IsPlainTag(t) ==
  /\ \A i \in 1..Len(t) : t[i] # ","
  /\ Len(t) > 0 => (t[1] # " " /\ t[Len(t)] # " ")

TagsEmptyCases ==
  /\ (codec.field = "tags" /\ codec.from = "value" /\ codec.stage # "value"
        /\ codec.tags = <<>>) => codec.text = <<>>
  /\ (codec.field = "tags" /\ codec.stage = "decoded" /\ codec.text = <<>>) =>
        codec.back = <<>>

\* C13 as stated: for every list of tag strings, decoding the encoding of
\* the list gives the trimmed tags in sorted order; the empty list encodes
\* to "" and "" decodes to the empty list.
C13_TagsRoundTripAnyList ==
  /\ TagsRoundTripDone => codec.back = Sorted(Trimmed(codec.tags))
  /\ TagsEmptyCases

\* C13, amended: for every list of tag strings none of which contains a
\* comma or has leading or trailing whitespace, other than the list [""],
\* decoding the encoding of the list gives the tags in sorted order (the
\* sorted trimmed tags, trimming changing nothing); the empty list encodes
\* to "" and "" decodes to the empty list.
C13_TagsRoundTrip ==
  /\ (/\ TagsRoundTripDone
      /\ \A i \in 1..Len(codec.tags) : IsPlainTag(codec.tags[i])
      /\ codec.tags # << <<>> >>) =>
        /\ codec.back = Sorted(Trimmed(codec.tags))
        /\ codec.back = Sorted(codec.tags)
        /\ Len(codec.back) = Len(codec.tags)
        /\ \A i \in 1..(Len(codec.back) - 1) :
             ~StrLess(codec.back[i + 1], codec.back[i])
  /\ TagsEmptyCases

\* ["b a", "a"] was encoded to "a, b a" and decoded to ["a", "b a"]
C13_Witness ==
  /\ TagsRoundTripDone
  /\ codec.tags = << <<"b", " ", "a">>, <<"a">> >>
  /\ codec.text = <<"a", ",", " ", "b", " ", "a">>
  /\ codec.back = << <<"a">>, <<"b", " ", "a">> >>

\* C14: noon encoding.  The encoding of a set date is the timestamp of noon
\* of that day, so it is 43200 modulo 86400; the encoding of unset is 0.
C14_NoonEncoding ==
  (codec.field = "date" /\ codec.from = "value" /\ codec.stage # "value") =>
    IF codec.value.set
      THEN codec.wire % 86400 = 43200
      ELSE codec.wire = 0

\* C15: IsComplete returns TRUE exactly when the task's completedDate is
\* set and FALSE otherwise, for a task built by the caller and for a task
\* decoded from a wire record, with or without "completed"; it never fails.
C15_IsComplete ==
  (codec.field = "task" /\ codec.stage = "called") =>
    codec.result =
      Returned("completedDate" \in DOMAIN codec.task /\ codec.task.completedDate.set)

\* C16: sentinel distinctness.  For the date and the datetime codec, 0
\* decodes to unset, unset encodes to 0, and only unset encodes to 0.
C16_SentinelDistinct ==
  codec.field \in {"date", "datetime"} =>
    /\ (codec.stage = "decoded" /\ codec.wire = 0 /\ codec.from = "wire") =>
          ~codec.back.set
    /\ (codec.from = "value" /\ codec.stage # "value") =>
          (codec.wire = 0 <=> ~codec.value.set)

\* what a server holding tasks 1..n answers to the i-th request:
\* tasks[start : start + num]
HonestAnswer(n, i) ==
  LET from == requests[i].params.start
      upto == Min(from + requests[i].params.num, n)
  IN  [j \in 1..(IF upto > from THEN upto - from ELSE 0) |->
         [id |-> from + j, title |-> ShortTitle]]

\* every answer so far is the one of a server that holds tasks 1..n
HonestServer(n) ==
  /\ AllSuccess
  /\ NoTokenFailure
  /\ \A i \in 1..Len(served) : PageTasks(i) = HonestAnswer(n, i)

\* the numbers of tasks a server can hold given the pages the model serves
ServerSizes ==
  {1000 * a + z : a \in 0..Len(served), z \in PageSizes \ {ReadLimit}}

\* C17: paged-read termination.  GetTasks has ended exactly when some
\* response was not 2xx, carried an errorCode or carried fewer than 1000
\* tasks, so it is still running after any number of full pages; against a
\* server holding n tasks that answers tasks[start : start + num] it ends
\* with the (n \div 1000 + 1)-th request, not before, the last page being
\* empty when n is a multiple of 1000, and returns tasks 1..n in order.
C17_PagedReadTermination ==
  (op = "GetTasks" /\ NoTokenFailure) =>
    /\ pc # "loop" <=>
         \E i \in 1..Len(served) :
           \/ ~Is2xx(served[i])
           \/ served[i].body.kind = "error"
           \/ Len(PageTasks(i)) < 1000
    /\ \A n \in ServerSizes :
         HonestServer(n) =>
           /\ Len(requests) <= n \div 1000 + 1
           /\ Len(requests) < n \div 1000 + 1 => pc = "loop"
           /\ Len(requests) = n \div 1000 + 1 =>
                /\ pc # "loop"
                /\ funcOutcome =
                     Returned(RetTasks([j \in 1..n |-> [id_ |-> j, title |-> ShortTitle]]))
                /\ n % 1000 = 0 => PageTasks(Len(served)) = <<>>

\* a server holding 2000 tasks: three requests, the third page empty
C17_Witness ==
  /\ op = "GetTasks"
  /\ via = "module"
  /\ pc = "done"
  /\ HonestServer(2000)
  /\ Len(requests) = 3
  /\ PageTasks(3) = <<>>
  /\ callerOutcome.kind = "return"
  /\ Len(callerOutcome.value.tasks) = 2000

====
